---- MODULE Spec2Model ----
(***************************************************************************)
(* Valuation tools (capital structure, WACC, FCF proxy, FCFF DCF, scenario *)
(* and sensitivity sweep, context assembly) and the memo generation call.  *)
(*                                                                         *)
(* JavaScript numbers are modelled as exact rationals [n, d] in lowest     *)
(* terms (d > 0).  Monetary amounts of the mock bundle are expressed in    *)
(* units of 1e9 (3150 stands for 3150000000000); every quantity the tools  *)
(* return is either a ratio of such amounts or linear in them.             *)
(***************************************************************************)
EXTENDS Integers, Sequences, FiniteSets, TLC

VARIABLES wacc_in, wacc_out,
          dcf_in, dcf_out,
          sens_in, sens_out,
          ctx_in, ctx_out,
          env_key, memo_pc, memo_requests, memo_transport, memo_result

vars == <<wacc_in, wacc_out, dcf_in, dcf_out, sens_in, sens_out, ctx_in, ctx_out,
          env_key, memo_pc, memo_requests, memo_transport, memo_result>>

----------------------------------------------------------------------------
(* Bounds of the model *)

MaxYears == 2

MaxSweepYears == 1

MaxLen == 2

----------------------------------------------------------------------------
(* Exact rational arithmetic standing for the arithmetic on numbers *)

Abs(x) == IF x < 0 THEN -x ELSE x

RECURSIVE GCD(_, _)
GCD(a, b) == IF b = 0 THEN a ELSE GCD(b, a % b)

Rat(n, d) ==
  LET s == IF d < 0 THEN -1 ELSE 1
      g == GCD(Abs(n), Abs(d))
  IN  [n |-> (s * n) \div g, d |-> (s * d) \div g]

Num(k) == [n |-> k, d |-> 1]

Zero == Num(0)

One == Num(1)

RAdd(a, b) ==
  LET g == GCD(a.d, b.d)
  IN  Rat(a.n * (b.d \div g) + b.n * (a.d \div g), (a.d \div g) * b.d)

RNeg(a) == [n |-> -a.n, d |-> a.d]

RSub(a, b) == RAdd(a, RNeg(b))

RMul(a, b) ==
  LET g1 == IF a.n = 0 THEN b.d ELSE GCD(Abs(a.n), b.d)
      g2 == IF b.n = 0 THEN a.d ELSE GCD(Abs(b.n), a.d)
  IN  Rat((a.n \div g1) * (b.n \div g2), (a.d \div g2) * (b.d \div g1))

RInv(a) == Rat(a.d, a.n)

RDiv(a, b) == RMul(a, RInv(b))

(* a < b by comparing continued-fraction expansions (no products) *)
RECURSIVE RLt(_, _)
RLt(a, b) ==
  LET qa == a.n \div a.d
      qb == b.n \div b.d
      ra == a.n % a.d
      rb == b.n % b.d
  IN  IF qa # qb THEN qa < qb
      ELSE IF rb = 0 THEN FALSE
      ELSE IF ra = 0 THEN TRUE
      ELSE RLt([n |-> b.d, d |-> rb], [n |-> a.d, d |-> ra])

RLe(a, b) == ~RLt(b, a)

RMax(a, b) == IF RLt(a, b) THEN b ELSE a

RMin(a, b) == IF RLt(b, a) THEN b ELSE a

RECURSIVE RPow(_, _)
RPow(a, k) == IF k = 0 THEN One ELSE RMul(a, RPow(a, k - 1))

Pow10(k) == IF k = 4 THEN 10000 ELSE 100000

(* Digits of floor(r * 10^k / d) by long division, for 0 <= r < d;        *)
(* the result is <<quotient, remainder>>.                                 *)
RECURSIVE LongDiv(_, _, _, _)
LongDiv(q, r, d, k) ==
  IF k = 0 THEN <<q, r>>
  ELSE LongDiv(q * 10 + ((r * 10) \div d), (r * 10) % d, d, k - 1)

(* Number(x.toFixed(k)): the decimal with k digits nearest to x, the      *)
(* larger in magnitude on a tie.                                          *)
ToFixed(x, k) ==
  LET a  == Abs(x.n)
      qr == LongDiv(a \div x.d, a % x.d, x.d, k)
      m  == IF 2 * qr[2] >= x.d THEN qr[1] + 1 ELSE qr[1]
      s  == IF x.n < 0 THEN -1 ELSE 1
  IN  Rat(s * m, Pow10(k))

Null == [null |-> TRUE]

----------------------------------------------------------------------------
(* The mock data bundle, amounts in units of 1e9 *)

MOCK_MSFT_BUNDLE ==
  [market |-> [marketCap |-> Num(3150), sharesOutstanding |-> Rat(743, 100),
               beta |-> Rat(89, 100), price |-> Num(425)],
   financials |-> [totalDebt |-> Num(106), cash |-> Num(80),
                   interestExpense |-> Num(3), preTaxIncome |-> Num(100),
                   incomeTax |-> Num(18)],
   cashflow |-> [history |-> << [period |-> "2023", cfo |-> Rat(87582, 1000),
                                 capex |-> Rat(28107, 1000)],
                                [period |-> "2024 (TTM)", cfo |-> Num(110),
                                 capex |-> Num(45)] >>]]

extract_capital_structure ==
  LET market == MOCK_MSFT_BUNDLE.market
      financials == MOCK_MSFT_BUNDLE.financials
  IN  [ticker |-> "MSFT",
       equity_market_value_E |-> market.marketCap,
       debt_book_value_D |-> financials.totalDebt,
       cash_and_equivalents |-> financials.cash,
       net_debt |-> RSub(financials.totalDebt, financials.cash),
       shares_outstanding |-> market.sharesOutstanding,
       beta |-> market.beta,
       notes |-> << "Book debt used as proxy for market value of debt" >>,
       limitations |-> << "Reliance on most recent reported balance sheet data" >>,
       warnings |-> << >>]

----------------------------------------------------------------------------
(* estimate_wacc *)

(* inputs.beta_override ?? cap_struct.beta *)
beta(cap_struct, inputs) ==
  IF inputs.beta_override = Null THEN cap_struct.beta ELSE inputs.beta_override

ke(cap_struct, inputs) ==
  RAdd(inputs.rf, RMul(beta(cap_struct, inputs), inputs.erp))

t_effective ==
  RDiv(MOCK_MSFT_BUNDLE.financials.incomeTax, MOCK_MSFT_BUNDLE.financials.preTaxIncome)

(* let kd_pre_tax = inputs.kd_override ?? (interestExpense / debt_book_value_D) *)
kd_initial(cap_struct, inputs) ==
  IF inputs.kd_override = Null
    THEN RDiv(MOCK_MSFT_BUNDLE.financials.interestExpense, cap_struct.debt_book_value_D)
    ELSE inputs.kd_override

kd_pre_tax_unguarded(cap_struct, inputs) == kd_initial(cap_struct, inputs)

(* if (kd_pre_tax < 0.01) kd_pre_tax = 0.04 *)
kd_pre_tax(cap_struct, inputs) ==
  IF RLt(kd_initial(cap_struct, inputs), Rat(1, 100))
    THEN Rat(4, 100)
    ELSE kd_initial(cap_struct, inputs)

kd_after_tax_no_shield(cap_struct, inputs) == kd_pre_tax(cap_struct, inputs)

kd_after_tax(cap_struct, inputs) ==
  RMul(kd_pre_tax(cap_struct, inputs), RSub(One, t_effective))

V(cap_struct) == RAdd(cap_struct.equity_market_value_E, cap_struct.debt_book_value_D)

w_e(cap_struct) == RDiv(cap_struct.equity_market_value_E, V(cap_struct))

w_d(cap_struct) == RDiv(cap_struct.debt_book_value_D, V(cap_struct))

wacc_unrounded(cap_struct, inputs) ==
  RAdd(RMul(ke(cap_struct, inputs), w_e(cap_struct)),
       RMul(kd_after_tax(cap_struct, inputs), w_d(cap_struct)))

(* Truthiness of a number or null: null and 0 are falsy *)
Truthy(x) == x # Null /\ x.n # 0

BetaWarning == "User provided Beta override"

estimate_wacc(cap_struct, inputs) ==
  [rf |-> inputs.rf,
   erp |-> inputs.erp,
   beta_used |-> beta(cap_struct, inputs),
   cost_of_equity_ke |-> ToFixed(ke(cap_struct, inputs), 5),
   tax_rate_effective |-> ToFixed(t_effective, 4),
   cost_of_debt_kd |-> ToFixed(kd_pre_tax(cap_struct, inputs), 4),
   weights |-> [w_e |-> ToFixed(w_e(cap_struct), 4), w_d |-> ToFixed(w_d(cap_struct), 4)],
   wacc |-> ToFixed(wacc_unrounded(cap_struct, inputs), 5),
   warnings |-> IF Truthy(inputs.beta_override) THEN << BetaWarning >> ELSE << >>,
   limitations |-> << "Kd estimated via Interest Expense / Book Debt proxy" >>,
   components |-> [equity_market_value_E |-> cap_struct.equity_market_value_E,
                   debt_book_value_D |-> cap_struct.debt_book_value_D]]

----------------------------------------------------------------------------
(* compute_fcf_proxy *)

RECURSIVE fcf_history(_)
fcf_history(h) ==
  IF h = << >> THEN << >>
  ELSE << [period |-> Head(h).period, cfo |-> Head(h).cfo, capex |-> Head(h).capex,
           fcf |-> RSub(Head(h).cfo, Head(h).capex)] >> \o fcf_history(Tail(h))

compute_fcf_proxy ==
  LET history == fcf_history(MOCK_MSFT_BUNDLE.cashflow.history)
      latest == history[Len(history)]
  IN  [method |-> "CFO_minus_Capex_proxy_for_FCFF",
       fcf_history |-> history,
       fcf0_latest |-> latest.fcf,
       warnings |-> << >>,
       limitations |-> << "FCFF approx via CFO - Capex; ignores net interest tax shield adjustments" >>]

----------------------------------------------------------------------------
(* run_fcff_dcf *)

(* The forecast loop from period i to years; yields the final current_fcf *)
(* and the accumulated pv_forecast.                                       *)
RECURSIVE forecast_loop_late_discount(_, _, _, _, _, _)
forecast_loop_late_discount(i, years, current_fcf, pv_forecast, wacc, growth_rate) ==
  IF i > years THEN [current_fcf |-> current_fcf, pv_forecast |-> pv_forecast]
  ELSE LET grown == RMul(current_fcf, RAdd(One, growth_rate))
       IN  forecast_loop_late_discount(i + 1, years, grown,
             RAdd(pv_forecast, RDiv(grown, RPow(RAdd(One, wacc), i - 1))),
             wacc, growth_rate)

RECURSIVE forecast_loop(_, _, _, _, _, _)
forecast_loop(i, years, current_fcf, pv_forecast, wacc, growth_rate) ==
  IF i > years THEN [current_fcf |-> current_fcf, pv_forecast |-> pv_forecast]
  ELSE LET grown == RMul(current_fcf, RAdd(One, growth_rate))
       IN  forecast_loop(i + 1, years, grown,
                         RAdd(pv_forecast, RDiv(grown, RPow(RAdd(One, wacc), i))),
                         wacc, growth_rate)

valid_wacc_thin_margin(wacc, terminal_g) == RMax(wacc, RAdd(terminal_g, Rat(1, 1000)))

valid_wacc(wacc, terminal_g) == RMax(wacc, RAdd(terminal_g, Rat(5, 1000)))

tv(fcf_final, wacc, terminal_g) ==
  RDiv(RMul(fcf_final, RAdd(One, terminal_g)),
       RSub(valid_wacc(wacc, terminal_g), terminal_g))

pv_terminal(fcf_final, wacc, terminal_g, years) ==
  RDiv(tv(fcf_final, wacc, terminal_g), RPow(RAdd(One, wacc), years))

DcfWarning == "WACC was adjusted to be higher than terminal growth for stability"

dcf_warnings(wacc, terminal_g) ==
  IF RLe(wacc, terminal_g) THEN << DcfWarning >> ELSE << >>

run_fcff_dcf(fcf0, wacc, terminal_g, years, growth_rate, net_debt, shares, spot_price) ==
  LET loop == forecast_loop(1, years, fcf0, Zero, wacc, growth_rate)
      pvt == pv_terminal(loop.current_fcf, wacc, terminal_g, years)
      ev == RAdd(loop.pv_forecast, pvt)
      equity_val == RSub(ev, net_debt)
      val_per_share == RDiv(equity_val, shares)
      upside == IF Truthy(spot_price)
                  THEN RDiv(RSub(val_per_share, spot_price), spot_price)
                  ELSE Null
  IN  [assumptions |-> [method |-> "FCFF_DCF",
                        wacc |-> ToFixed(wacc, 4),
                        terminal_g |-> terminal_g,
                        forecast_years |-> years,
                        fcf_growth |-> growth_rate],
       pv_forecast |-> loop.pv_forecast,
       pv_terminal |-> pvt,
       enterprise_value_ev |-> ev,
       equity_value |-> equity_val,
       value_per_share |-> val_per_share,
       upside_vs_spot |-> upside,
       warnings |-> dcf_warnings(wacc, terminal_g),
       limitations |-> << "Standard 2-stage growth model" >>]

----------------------------------------------------------------------------
(* run_scenarios_and_sensitivity *)

wacc_range_coarse(base_wacc) ==
  << RSub(base_wacc, Rat(2, 100)), RSub(base_wacc, Rat(1, 100)), base_wacc,
     RAdd(base_wacc, Rat(1, 100)), RAdd(base_wacc, Rat(2, 100)) >>

wacc_range(base_wacc) ==
  << RSub(base_wacc, Rat(1, 100)), RSub(base_wacc, Rat(5, 1000)), base_wacc,
     RAdd(base_wacc, Rat(5, 1000)), RAdd(base_wacc, Rat(1, 100)) >>

g_range(base_inputs) ==
  << RSub(base_inputs.terminal_g, Rat(5, 1000)), base_inputs.terminal_g,
     RAdd(base_inputs.terminal_g, Rat(5, 1000)) >>

(* The inner loop: one row, pushing the value per share for each g *)
RECURSIVE sens_row(_, _, _, _, _, _, _)
sens_row(row, gs, w, fcf0, base_inputs, net_debt, shares) ==
  IF gs = << >> THEN row
  ELSE sens_row(Append(row, run_fcff_dcf(fcf0, w, Head(gs), base_inputs.forecast_years,
                                         base_inputs.fcf_growth, net_debt, shares,
                                         Null).value_per_share),
                Tail(gs), w, fcf0, base_inputs, net_debt, shares)

(* The outer loop: one row pushed per WACC value *)
RECURSIVE sens_matrix(_, _, _, _, _, _, _)
sens_matrix(matrix, ws, gs, fcf0, base_inputs, net_debt, shares) ==
  IF ws = << >> THEN matrix
  ELSE sens_matrix(Append(matrix, sens_row(<< >>, gs, Head(ws), fcf0, base_inputs,
                                           net_debt, shares)),
                   Tail(ws), gs, fcf0, base_inputs, net_debt, shares)

run_scenarios_and_sensitivity(fcf0, base_wacc, base_inputs, net_debt, shares) ==
  LET spot == MOCK_MSFT_BUNDLE.market.price
      base == run_fcff_dcf(fcf0, base_wacc, base_inputs.terminal_g,
                           base_inputs.forecast_years, base_inputs.fcf_growth,
                           net_debt, shares, spot)
      bull == run_fcff_dcf(fcf0, RMax(Rat(1, 100), RSub(base_wacc, Rat(1, 100))),
                           base_inputs.terminal_g, base_inputs.forecast_years,
                           RAdd(base_inputs.fcf_growth, Rat(2, 100)),
                           net_debt, shares, spot)
      bear == run_fcff_dcf(fcf0, RAdd(base_wacc, Rat(1, 100)),
                           base_inputs.terminal_g, base_inputs.forecast_years,
                           RSub(base_inputs.fcf_growth, Rat(2, 100)),
                           net_debt, shares, spot)
  IN  [scenarios |-> [base |-> base, bull |-> bull, bear |-> bear],
       sensitivity |-> [wacc_values |-> wacc_range(base_wacc),
                        g_values |-> g_range(base_inputs),
                        value_per_share_matrix |->
                          sens_matrix(<< >>, wacc_range(base_wacc), g_range(base_inputs),
                                      fcf0, base_inputs, net_debt, shares)],
       warnings |-> << >>,
       limitations |-> << >>]

----------------------------------------------------------------------------
(* build_context_json *)

context_limitations_fcf_first(cs, wacc, fcf, sens) ==
  cs.limitations \o fcf.limitations \o wacc.limitations
    \o sens.scenarios.base.limitations

context_limitations(cs, wacc, fcf, sens) ==
  cs.limitations \o wacc.limitations \o fcf.limitations
    \o sens.scenarios.base.limitations

context_warnings(cs, wacc) == cs.warnings \o wacc.warnings

build_context_json(inputs, cs, wacc, fcf, sens, now) ==
  [meta |-> [ticker |-> "MSFT", source |-> "yfinance (simulated)",
             generated_at_utc |-> now, cache_used |-> TRUE],
   inputs |-> [ticker |-> "MSFT", rf |-> inputs.rf, erp |-> inputs.erp,
               forecast_years |-> inputs.forecast_years,
               fcf_growth |-> inputs.fcf_growth,
               terminal_g |-> inputs.terminal_g],
   capital_structure |-> cs,
   wacc |-> wacc,
   fcf |-> fcf,
   valuation |-> sens.scenarios.base,
   sensitivity |-> sens,
   limitations |-> context_limitations(cs, wacc, fcf, sens),
   warnings |-> context_warnings(cs, wacc)]

----------------------------------------------------------------------------
(* generateMemo *)

NoKeyMessage == "API Key not found in environment"

NoTextMessage == "Error: No text generated."

FixedErrorString == "Error generating memo. Please check API Key or try again."

NoResult == [kind |-> "none", value |-> ""]

(* !apiKey: undefined or the empty string *)
KeyMissing(apiKey) == ~apiKey.defined \/ apiKey.value = ""

(* response.text || "Error: No text generated." *)
TextOrDefault(text) == IF text = "" THEN NoTextMessage ELSE text

----------------------------------------------------------------------------
(* Input domains *)

WaccCapStructs ==
  { [extract_capital_structure EXCEPT
       !.equity_market_value_E = Num(e),
       !.debt_book_value_D = Num(d),
       !.net_debt = RSub(Num(d), extract_capital_structure.cash_and_equivalents)]
    : e \in {1, 3150}, d \in {106, 300, 400} }

WaccUserInputs ==
  [rf : {Zero, Rat(41, 1000)}, erp : {Zero, Rat(5, 100)},
   forecast_years : {MaxYears}, fcf_growth : {Rat(5, 100)}, terminal_g : {Rat(3, 100)},
   beta_override : {Null, Zero, Rat(6, 5)},
   kd_override : {Null, Zero, Rat(5, 1000), Rat(5, 100)}]

DcfInputs ==
  [fcf0 : {Num(100), Num(65)},
   wacc : {Rat(1, 10), Rat(1, 4)},
   terminal_g : {Rat(3, 100), Rat(39, 400), Rat(1, 10), Rat(1, 5)},
   years : 1..MaxYears,
   growth_rate : {Zero, Rat(1, 10), Rat(-1, 2)},
   net_debt : {Zero, Num(26)},
   shares : {Num(100), Num(1)},
   spot_price : {Null, Zero, Num(425)}]

SweepUserInputs ==
  [rf : {Rat(4, 100)}, erp : {Rat(5, 100)},
   forecast_years : 1..MaxSweepYears,
   fcf_growth : {Zero, Rat(5, 100)},
   terminal_g : {Rat(3, 100), Rat(1, 10)},
   beta_override : {Null}, kd_override : {Null}]

SensInputs ==
  [fcf0 : {Num(1), Num(65)},
   base_wacc : {Rat(15, 1000), Rat(85, 1000), Rat(1, 10)},
   base_inputs : SweepUserInputs,
   net_debt : {Zero, Num(26)},
   shares : {Num(1), Num(8)}]

RECURSIVE SeqsUpTo(_, _)
SeqsUpTo(k, S) ==
  IF k = 0 THEN { << >> }
  ELSE SeqsUpTo(k - 1, S) \cup { Append(q, x) : q \in SeqsUpTo(k - 1, S), x \in S }

BaseUserInputs ==
  [rf |-> Rat(4, 100), erp |-> Rat(5, 100), forecast_years |-> 1,
   fcf_growth |-> Rat(5, 100), terminal_g |-> Rat(3, 100),
   beta_override |-> Null, kd_override |-> Null]

BaseSens ==
  run_scenarios_and_sensitivity(Num(65), Rat(85, 1000), BaseUserInputs, Num(26),
                                Num(8))

WithBaseLimitations(sens, lims) ==
  [sens EXCEPT !.scenarios.base.limitations = lims]

CtxInputs ==
  { [inputs |-> BaseUserInputs,
     cs |-> [extract_capital_structure EXCEPT !.limitations = l1, !.warnings = l4],
     wacc |-> [estimate_wacc(extract_capital_structure, BaseUserInputs)
                 EXCEPT !.limitations = l2, !.warnings = l3],
     fcf |-> [compute_fcf_proxy EXCEPT !.limitations = l3],
     sens |-> WithBaseLimitations(BaseSens, l4)]
    : l1 \in SeqsUpTo(MaxLen, {"p", "q"}), l2 \in SeqsUpTo(MaxLen, {"p", "q"}),
      l3 \in SeqsUpTo(MaxLen, {"p"}), l4 \in SeqsUpTo(MaxLen, {"q"}) }

Timestamps == {"2024-01-01T00:00:00.000Z", "2024-01-02T00:00:00.000Z"}

MemoContexts ==
  { build_context_json(BaseUserInputs,
                       [extract_capital_structure EXCEPT !.warnings = w1],
                       estimate_wacc(extract_capital_structure, BaseUserInputs),
                       [compute_fcf_proxy EXCEPT !.limitations = l3],
                       BaseSens, now)
    : w1 \in SeqsUpTo(MaxLen, {"w"}), l3 \in SeqsUpTo(MaxLen, {"p"}),
      now \in Timestamps }

EnvKeys ==
  { [defined |-> FALSE, value |-> ""], [defined |-> TRUE, value |-> ""],
    [defined |-> TRUE, value |-> "key"] }

ResponseTexts == {"", "### Title"}

----------------------------------------------------------------------------
(* Initial states and actions *)

MemoIdle ==
  /\ env_key = [defined |-> FALSE, value |-> ""]
  /\ memo_pc = "idle"
  /\ memo_requests = 0
  /\ memo_transport = "none"
  /\ memo_result = NoResult

InitWacc ==
  /\ wacc_in \in [cap_struct : WaccCapStructs, inputs : WaccUserInputs]
  /\ wacc_out = Null
  /\ dcf_in = Null /\ dcf_out = Null
  /\ sens_in = Null /\ sens_out = Null
  /\ ctx_in = Null /\ ctx_out = Null
  /\ MemoIdle

InitDcf ==
  /\ dcf_in \in DcfInputs
  /\ dcf_out = Null
  /\ wacc_in = Null /\ wacc_out = Null
  /\ sens_in = Null /\ sens_out = Null
  /\ ctx_in = Null /\ ctx_out = Null
  /\ MemoIdle

InitSens ==
  /\ sens_in \in SensInputs
  /\ sens_out = Null
  /\ wacc_in = Null /\ wacc_out = Null
  /\ dcf_in = Null /\ dcf_out = Null
  /\ ctx_in = Null /\ ctx_out = Null
  /\ MemoIdle

InitCtx ==
  /\ ctx_in \in CtxInputs
  /\ ctx_out = Null
  /\ wacc_in = Null /\ wacc_out = Null
  /\ dcf_in = Null /\ dcf_out = Null
  /\ sens_in = Null /\ sens_out = Null
  /\ MemoIdle

InitMemo ==
  /\ ctx_in = Null
  /\ ctx_out \in MemoContexts
  /\ env_key \in EnvKeys
  /\ memo_pc = "idle"
  /\ memo_requests = 0
  /\ memo_transport = "none"
  /\ memo_result = NoResult
  /\ wacc_in = Null /\ wacc_out = Null
  /\ dcf_in = Null /\ dcf_out = Null
  /\ sens_in = Null /\ sens_out = Null

EstimateWacc ==
  /\ wacc_in # Null /\ wacc_out = Null
  /\ wacc_out' = estimate_wacc(wacc_in.cap_struct, wacc_in.inputs)
  /\ UNCHANGED <<wacc_in, dcf_in, dcf_out, sens_in, sens_out, ctx_in, ctx_out,
                 env_key, memo_pc, memo_requests, memo_transport, memo_result>>

RunFcffDcf ==
  /\ dcf_in # Null /\ dcf_out = Null
  /\ dcf_out' = run_fcff_dcf(dcf_in.fcf0, dcf_in.wacc, dcf_in.terminal_g, dcf_in.years,
                             dcf_in.growth_rate, dcf_in.net_debt, dcf_in.shares,
                             dcf_in.spot_price)
  /\ UNCHANGED <<wacc_in, wacc_out, dcf_in, sens_in, sens_out, ctx_in, ctx_out,
                 env_key, memo_pc, memo_requests, memo_transport, memo_result>>

RunScenariosAndSensitivity ==
  /\ sens_in # Null /\ sens_out = Null
  /\ sens_out' = run_scenarios_and_sensitivity(sens_in.fcf0, sens_in.base_wacc,
                                               sens_in.base_inputs, sens_in.net_debt,
                                               sens_in.shares)
  /\ UNCHANGED <<wacc_in, wacc_out, dcf_in, dcf_out, sens_in, ctx_in, ctx_out,
                 env_key, memo_pc, memo_requests, memo_transport, memo_result>>

BuildContextJson ==
  /\ ctx_in # Null /\ ctx_out = Null
  /\ \E now \in Timestamps :
       ctx_out' = build_context_json(ctx_in.inputs, ctx_in.cs, ctx_in.wacc, ctx_in.fcf,
                                     ctx_in.sens, now)
  /\ UNCHANGED <<wacc_in, wacc_out, dcf_in, dcf_out, sens_in, sens_out, ctx_in,
                 env_key, memo_pc, memo_requests, memo_transport, memo_result>>

(* generateMemo up to the await: the key check, then the request is issued *)
GenerateMemoCall ==
  /\ memo_pc = "idle" /\ ctx_out # Null
  /\ IF KeyMissing(env_key)
       THEN /\ memo_pc' = "rejected"
            /\ memo_result' = [kind |-> "throw", value |-> NoKeyMessage]
            /\ UNCHANGED memo_requests
       ELSE /\ memo_pc' = "awaiting"
            /\ memo_requests' = memo_requests + 1
            /\ UNCHANGED memo_result
  /\ UNCHANGED <<wacc_in, wacc_out, dcf_in, dcf_out, sens_in, sens_out, ctx_in, ctx_out,
                 env_key, memo_transport>>

(* The awaited request resolves with a response *)
GenerateMemoResolve ==
  /\ memo_pc = "awaiting"
  /\ \E text \in ResponseTexts :
       memo_result' = [kind |-> "return", value |-> TextOrDefault(text)]
  /\ memo_transport' = "resolved"
  /\ memo_pc' = "fulfilled"
  /\ UNCHANGED <<wacc_in, wacc_out, dcf_in, dcf_out, sens_in, sens_out, ctx_in, ctx_out,
                 env_key, memo_requests>>

(* The awaited request rejects; the catch block returns the fixed string *)
GenerateMemoCatch ==
  /\ memo_pc = "awaiting"
  /\ memo_result' = [kind |-> "return", value |-> FixedErrorString]
  /\ memo_transport' = "failed"
  /\ memo_pc' = "fulfilled"
  /\ UNCHANGED <<wacc_in, wacc_out, dcf_in, dcf_out, sens_in, sens_out, ctx_in, ctx_out,
                 env_key, memo_requests>>

SpecWacc == InitWacc /\ [][EstimateWacc]_vars

SpecDcf == InitDcf /\ [][RunFcffDcf]_vars

SpecSens == InitSens /\ [][RunScenariosAndSensitivity]_vars

SpecCtx == InitCtx /\ [][BuildContextJson]_vars

NextMemo == GenerateMemoCall \/ GenerateMemoResolve \/ GenerateMemoCatch

SpecMemo == InitMemo /\ [][NextMemo]_vars

----------------------------------------------------------------------------
(* Properties of estimate_wacc, under SpecWacc *)

WaccDone == wacc_out # Null

InterestRatio ==
  RDiv(MOCK_MSFT_BUNDLE.financials.interestExpense,
       wacc_in.cap_struct.debt_book_value_D)

KdOverride == wacc_in.inputs.kd_override

BetaOverride == wacc_in.inputs.beta_override

Has(list, x) == \E i \in DOMAIN list : list[i] = x

(* C1, as stated: whenever interest expense / debt is below 0.01 the      *)
(* returned cost_of_debt_kd is exactly 0.04, for every user input.        *)
C1_FallbackForEveryInput ==
  (WaccDone /\ RLt(InterestRatio, Rat(1, 100)))
    => wacc_out.cost_of_debt_kd = Rat(4, 100)

(* C1, amended: when no cost-of-debt override is supplied and interest    *)
(* expense / debt is below 0.01, the returned cost_of_debt_kd is exactly  *)
(* 0.04.                                                                  *)
C1_FallbackWithoutOverride ==
  (WaccDone /\ KdOverride = Null /\ RLt(InterestRatio, Rat(1, 100)))
    => wacc_out.cost_of_debt_kd = Rat(4, 100)

C1_Witness ==
  /\ WaccDone /\ KdOverride = Null /\ RLt(InterestRatio, Rat(1, 100))
  /\ wacc_out.cost_of_debt_kd = Rat(4, 100)

(* C2: a supplied cost-of-debt override (any non-null value, 0 and values *)
(* below 0.01 included) is the returned cost_of_debt_kd, rounded to 4     *)
(* decimals, and the cost of debt that enters the WACC.                   *)
C2_OverrideIsUsed ==
  (WaccDone /\ KdOverride # Null)
    => /\ wacc_out.cost_of_debt_kd = ToFixed(KdOverride, 4)
       /\ kd_pre_tax(wacc_in.cap_struct, wacc_in.inputs) = KdOverride

AfterTaxKd ==
  RMul(kd_pre_tax(wacc_in.cap_struct, wacc_in.inputs), RSub(One, t_effective))

CostOfEquity == ke(wacc_in.cap_struct, wacc_in.inputs)

RoundingStep == Rat(1, 100000)

(* C3, as stated: the returned wacc lies strictly between the after-tax   *)
(* cost of debt kd*(1-T) and the cost of equity ke.                       *)
C3_StrictlyBetween ==
  WaccDone
    => /\ RLt(RMin(AfterTaxKd, CostOfEquity), wacc_out.wacc)
       /\ RLt(wacc_out.wacc, RMax(AfterTaxKd, CostOfEquity))

(* C3, amended: the returned wacc lies in the closed interval between the *)
(* after-tax cost of debt kd*(1-T) and the cost of equity ke, widened on  *)
(* either side by less than the 0.00001 of its rounding; when the two     *)
(* costs coincide it is that common value, not strictly between.          *)
C3_BetweenUpToRounding ==
  WaccDone
    => /\ RLt(RSub(RMin(AfterTaxKd, CostOfEquity), RoundingStep), wacc_out.wacc)
       /\ RLt(wacc_out.wacc, RAdd(RMax(AfterTaxKd, CostOfEquity), RoundingStep))
       /\ (AfterTaxKd = CostOfEquity => wacc_out.wacc = ToFixed(CostOfEquity, 5))

C3_Witness ==
  /\ WaccDone
  /\ AfterTaxKd # CostOfEquity
  /\ RLt(RMin(AfterTaxKd, CostOfEquity), wacc_out.wacc)
  /\ RLt(wacc_out.wacc, RMax(AfterTaxKd, CostOfEquity))

(* C6: each guardrail substitution is recorded by a warning: a warning    *)
(* other than the beta one in the WACC Result when the 0.04 fallback      *)
(* replaced the cost of debt, and the adjustment warning in the DCF       *)
(* Result when the terminal-value rate differs from the supplied wacc.    *)
C6_GuardrailsAreWarned ==
  /\ (WaccDone /\ kd_pre_tax(wacc_in.cap_struct, wacc_in.inputs)
                    # kd_initial(wacc_in.cap_struct, wacc_in.inputs))
       => \E i \in DOMAIN wacc_out.warnings : wacc_out.warnings[i] # BetaWarning
  /\ (dcf_out # Null /\ valid_wacc(dcf_in.wacc, dcf_in.terminal_g) # dcf_in.wacc)
       => Has(dcf_out.warnings, DcfWarning)

(* C9: beta_used is the override whenever one is supplied (0 included)    *)
(* and the Capital Structure's beta otherwise, and the warnings contain   *)
(* the beta-override warning exactly when an override was supplied.       *)
C9_BetaOverrideWarned ==
  WaccDone
    => /\ wacc_out.beta_used =
            (IF BetaOverride = Null THEN wacc_in.cap_struct.beta ELSE BetaOverride)
       /\ (Has(wacc_out.warnings, BetaWarning) <=> BetaOverride # Null)

----------------------------------------------------------------------------
(* Properties of run_fcff_dcf, under SpecDcf *)

DcfDone == dcf_out # Null

RECURSIVE GrowingAnnuityPV(_, _, _, _)
GrowingAnnuityPV(fcf0, growth, rate, k) ==
  IF k = 0 THEN Zero
  ELSE RAdd(GrowingAnnuityPV(fcf0, growth, rate, k - 1),
            RDiv(RMul(fcf0, RPow(RAdd(One, growth), k)), RPow(RAdd(One, rate), k)))

FlooredRate ==
  IF RLt(dcf_in.wacc, RAdd(dcf_in.terminal_g, Rat(5, 1000)))
    THEN RAdd(dcf_in.terminal_g, Rat(5, 1000))
    ELSE dcf_in.wacc

TerminalPV ==
  RDiv(RDiv(RMul(RMul(dcf_in.fcf0, RPow(RAdd(One, dcf_in.growth_rate), dcf_in.years)),
                 RAdd(One, dcf_in.terminal_g)),
            RSub(FlooredRate, dcf_in.terminal_g)),
       RPow(RAdd(One, dcf_in.wacc), dcf_in.years))

Within(x, lo, hi) == RLt(lo, x) /\ RLt(x, hi)

ExampleInputs ==
  /\ dcf_in.fcf0 = Num(100) /\ dcf_in.wacc = Rat(1, 10)
  /\ dcf_in.terminal_g = Rat(3, 100) /\ dcf_in.years = 1
  /\ dcf_in.growth_rate = Zero /\ dcf_in.net_debt = Zero
  /\ dcf_in.shares = Num(100) /\ dcf_in.spot_price = Null

(* C4: pv_forecast is the sum over i = 1..years of                        *)
(* fcf0*(1+growth)^i/(1+wacc)^i, pv_terminal is the Gordon value of the   *)
(* final FCF discounted by (1+wacc)^years, enterprise value is their sum, *)
(* equity value is that less net debt, value per share is that over the   *)
(* shares; the worked example gives about 90.909, 1337.66, 1428.57 and    *)
(* 14.29.                                                                 *)
C4_DcfFormula ==
  DcfDone
    => /\ dcf_out.pv_forecast =
            GrowingAnnuityPV(dcf_in.fcf0, dcf_in.growth_rate, dcf_in.wacc, dcf_in.years)
       /\ dcf_out.pv_terminal = TerminalPV
       /\ dcf_out.enterprise_value_ev = RAdd(dcf_out.pv_forecast, dcf_out.pv_terminal)
       /\ dcf_out.equity_value = RSub(dcf_out.enterprise_value_ev, dcf_in.net_debt)
       /\ dcf_out.value_per_share = RDiv(dcf_out.equity_value, dcf_in.shares)
       /\ ExampleInputs
            => /\ Within(dcf_out.pv_forecast, Rat(90908, 1000), Rat(90910, 1000))
               /\ Within(dcf_out.pv_terminal, Rat(133765, 100), Rat(133767, 100))
               /\ Within(dcf_out.enterprise_value_ev, Rat(142856, 100), Rat(142858, 100))
               /\ dcf_out.equity_value = dcf_out.enterprise_value_ev
               /\ Within(dcf_out.value_per_share, Rat(1428, 100), Rat(1430, 100))

C4_Witness ==
  /\ DcfDone /\ ExampleInputs
  /\ dcf_out.pv_forecast = Rat(1000, 11)
  /\ dcf_out.value_per_share = Rat(100, 7)

(* C5: the terminal-value denominator uses max(wacc, terminal_g + 0.005), *)
(* so it is never below 0.005; the discount factor of the terminal value  *)
(* still uses the unmodified wacc; and the result carries the warning     *)
(* whenever wacc <= terminal_g.                                           *)
C5_TerminalGuardrail ==
  DcfDone
    => /\ valid_wacc(dcf_in.wacc, dcf_in.terminal_g) = FlooredRate
       /\ RLe(Rat(5, 1000),
              RSub(valid_wacc(dcf_in.wacc, dcf_in.terminal_g), dcf_in.terminal_g))
       /\ dcf_out.pv_terminal = TerminalPV
       /\ RLe(dcf_in.wacc, dcf_in.terminal_g) => Has(dcf_out.warnings, DcfWarning)

C5_Witness ==
  /\ DcfDone
  /\ RLe(dcf_in.wacc, dcf_in.terminal_g)
  /\ dcf_in.years > 1
  /\ valid_wacc(dcf_in.wacc, dcf_in.terminal_g) # dcf_in.wacc
  /\ Has(dcf_out.warnings, DcfWarning)

----------------------------------------------------------------------------
(* Properties of run_scenarios_and_sensitivity, under SpecSens *)

SensDone == sens_out # Null

HalfPoint == Rat(5, 1000)

GridWacc(i) == RAdd(sens_in.base_wacc, RMul(Num(i - 3), HalfPoint))

GridG(j) == RAdd(sens_in.base_inputs.terminal_g, RMul(Num(j - 2), HalfPoint))

(* C7: the matrix has 5 rows (WACC base-1%, -0.5%, base, +0.5%, +1%) of 3 *)
(* columns (terminal growth -0.5%, base, +0.5%); entry [i][j] is the      *)
(* value per share of the DCF at those two rates with the base growth;    *)
(* the centre entry is the base scenario's value per share.               *)
C7_SensitivityGrid ==
  SensDone
    => LET s == sens_out.sensitivity
           m == s.value_per_share_matrix
       IN  /\ Len(s.wacc_values) = 5 /\ Len(s.g_values) = 3 /\ Len(m) = 5
           /\ \A i \in 1..5 : s.wacc_values[i] = GridWacc(i)
           /\ \A j \in 1..3 : s.g_values[j] = GridG(j)
           /\ \A i \in 1..5 :
                /\ Len(m[i]) = 3
                /\ \A j \in 1..3 :
                     m[i][j] = run_fcff_dcf(sens_in.fcf0, GridWacc(i), GridG(j),
                                            sens_in.base_inputs.forecast_years,
                                            sens_in.base_inputs.fcf_growth,
                                            sens_in.net_debt, sens_in.shares,
                                            Null).value_per_share
           /\ m[3][2] = sens_out.scenarios.base.value_per_share

C7_Witness ==
  /\ SensDone
  /\ Len(sens_out.sensitivity.value_per_share_matrix) = 5
  /\ sens_in.base_inputs.fcf_growth # Zero
  /\ sens_out.sensitivity.value_per_share_matrix[3][2]
       = sens_out.scenarios.base.value_per_share
  /\ sens_out.sensitivity.value_per_share_matrix[1][3]
       # sens_out.sensitivity.value_per_share_matrix[3][1]

----------------------------------------------------------------------------
(* Properties of build_context_json, under SpecCtx *)

CtxDone == ctx_out # Null

(* The k-th element of the lists of seqs laid end to end *)
RECURSIVE ElementAt(_, _)
ElementAt(seqs, k) ==
  IF k <= Len(Head(seqs)) THEN Head(seqs)[k]
  ELSE ElementAt(Tail(seqs), k - Len(Head(seqs)))

RECURSIVE TotalLen(_)
TotalLen(seqs) == IF seqs = << >> THEN 0 ELSE Len(Head(seqs)) + TotalLen(Tail(seqs))

(* C10: limitations is the capital structure's, the WACC result's, the    *)
(* FCF data's and the base DCF result's limitations laid end to end, with *)
(* nothing removed; warnings is the capital structure's then the WACC     *)
(* result's warnings; valuation is the base scenario.                     *)
C10_ContextAggregates ==
  CtxDone
    => LET lims == << ctx_in.cs.limitations, ctx_in.wacc.limitations,
                      ctx_in.fcf.limitations,
                      ctx_in.sens.scenarios.base.limitations >>
           warns == << ctx_in.cs.warnings, ctx_in.wacc.warnings >>
       IN  /\ Len(ctx_out.limitations) = TotalLen(lims)
           /\ \A k \in 1..TotalLen(lims) : ctx_out.limitations[k] = ElementAt(lims, k)
           /\ Len(ctx_out.warnings) = TotalLen(warns)
           /\ \A k \in 1..TotalLen(warns) : ctx_out.warnings[k] = ElementAt(warns, k)
           /\ ctx_out.valuation = ctx_in.sens.scenarios.base

C10_Witness ==
  /\ CtxDone
  /\ Len(ctx_in.cs.limitations) = MaxLen
  /\ ctx_in.wacc.limitations = << "q", "p" >>
  /\ ctx_in.fcf.limitations = << "p" >>
  /\ ctx_in.sens.scenarios.base.limitations # << >>
  /\ Len(ctx_out.limitations) > Cardinality({ctx_out.limitations[k] :
                                              k \in DOMAIN ctx_out.limitations})
  /\ ctx_out.warnings # << >>

----------------------------------------------------------------------------
(* Properties of generateMemo, under SpecMemo *)

MemoSettled == memo_pc \in {"rejected", "fulfilled"}

(* C8: generateMemo never fails towards its caller: a missing API key and *)
(* a failed request both end in the fixed error string being returned,    *)
(* and the request is issued at most once.                                *)
C8_NoFailurePropagates ==
  /\ memo_requests <= 1
  /\ MemoSettled
       => /\ memo_result.kind = "return"
          /\ KeyMissing(env_key) => memo_result.value = FixedErrorString
          /\ memo_transport = "failed" => memo_result.value = FixedErrorString

====
